---- MODULE Spec2Model ----
(***************************************************************************)
(* State-machine model of the wifiobd Telegram shop bot: the Redis cart,   *)
(* the checkout dialogue (aiogram FSM), the order ledger, the YooMoney     *)
(* payment check and the OpenCart mirroring.                               *)
(*                                                                         *)
(* Money is modelled in whole currency units (integers).  Python None and  *)
(* the empty string are both falsy in every test the handlers make, and    *)
(* are modelled by the empty sequence / 0.                                  *)
(***************************************************************************)
EXTENDS Integers, Sequences, FiniteSets, TLC

VARIABLES
    catalog,     \* OpenCart products: product_id -> [price, quantity, name]
    cart,        \* Redis: user -> sequence of lines [product_id, quantity, options]
    profile,     \* users table: user -> [phone, opencart_customer_id]
    fsm,         \* aiogram FSM state of each user ("none" when no state is set)
    data,        \* aiogram FSM data of each user (the checkout draft)
    orders,      \* orders table, indexed by Order.id
    gateway,     \* YooMoney: payment labels created, and those with a successful operation
    storefront,  \* OpenCart write API: customer calls per user, orders created
    fx,          \* how many times check_payment has run its paid branch
    inflight,    \* cart operations between their read and their write
    throttle,    \* TTLCache of each ThrottlingMiddleware: time left per user
    reply        \* what the last handled event answered

vars == <<catalog, cart, profile, fsm, data, orders, gateway, storefront, fx,
          inflight, throttle, reply>>

----------------------------------------------------------------------------
(* Bounds of the model *)

MaxQty == 2
MaxOrders == 2
MaxChecks == 2

Users == {1, 2}

\* One ThrottlingMiddleware instance per event type.
EventTypes == {"message", "callback_query"}

\* settings.THROTTLE_TIME, in ticks of a quarter of a second.
THROTTLE_TIME == 2
Products == {1, 2}
Prices == {5, 6}
Stock == {0, 1}

ProductName(p) == IF p = 1 THEN "OBD-A" ELSE "OBD-B"

Product(p, price, quantity) ==
    [product_id |-> p, name |-> ProductName(p), model |-> p,
     price |-> price, quantity |-> quantity]

\* What Telegram reports about each user (callback.from_user).
first_name(u) == IF u = 1 THEN <<"A", "n", "n", "a">> ELSE <<"B", "o", "b">>
last_name(u) == IF u = 1 THEN <<>> ELSE <<"L", "e", "e">>
username(u) == IF u = 1 THEN <<"a", "n", "n", "a">> ELSE <<>>
AtTelegramUser ==
    <<"@", "t", "e", "l", "e", "g", "r", "a", "m", ".", "u", "s", "e", "r">>
\* The pickup marker the handlers store as the delivery address.
Pickup == <<"S", "a", "m", "o", "v", "y", "v", "o", "z">>

\* Texts are sequences of one-character strings.
PhonePlus7 == <<"+", "7", "9", "1", "6", "1", "2", "3", "4", "5", "6", "7">>
Phone8 == <<"8", "9", "1", "6", "1", "2", "3", "4", "5", "6", "7">>
PhoneBare == <<" ", "9", "1", "6", "1", "2", "3", "4", "5", "6", "7">>
PhoneNineDigits == <<"9", "1", "6", "1", "2", "3", "4", "5", "6">>
PhonePlusShort == <<"+", "7", "9", "1", "6">>
ContactPhone == <<"7", "9", "1", "6", "1", "2", "3", "4", "5", "6", "7">>
ManualPhoneButton == <<"#">>

PhoneTexts == {PhonePlus7, Phone8, PhoneBare, PhoneNineDigits, PhonePlusShort,
               ManualPhoneButton}

ShortName == <<" ", "A", " ">>
AnyName == <<"O", "l", "g", "a">>
ShortAddress == <<"N", "Y", " ">>
AnyAddress == <<"M", "a", "i", "n", " ", "1">>

\* Product options are a dict, here the set of its key-value pairs.
NoOptions == {}
SomeOptions == {<<"color", "red">>}
OptionDicts == {NoOptions, SomeOptions}

Digits == {"0", "1", "2", "3", "4", "5", "6", "7", "8", "9"}

NoData == [k \in {} |-> 0]
NoPhone == <<>>

ReplyNote(handler, user, arg, answer, note) ==
    [handler |-> handler, user |-> user, arg |-> arg, answer |-> answer,
     note |-> note]

Reply(handler, user, arg, answer) == ReplyNote(handler, user, arg, answer, <<>>)

\* The value of reply after a step of the environment (no handler answered).
EnvStep == Reply("env", 0, 0, "")

----------------------------------------------------------------------------
(* Generic helpers *)

RECURSIVE SumSeq(_)
SumSeq(s) == IF s = <<>> THEN 0 ELSE Head(s) + SumSeq(Tail(s))

RECURSIVE SumOver(_, _)
SumOver(S, f) ==
    IF S = {} THEN 0
    ELSE LET x == CHOOSE y \in S : TRUE IN f[x] + SumOver(S \ {x}, f)

Range(s) == {s[i] : i \in DOMAIN s}

----------------------------------------------------------------------------
(* OpenCart catalog (read side) *)

get_product_details(cat, p) ==
    IF p \in DOMAIN cat
    THEN [found |-> TRUE, product |-> cat[p], in_stock |-> cat[p].quantity > 0]
    ELSE [found |-> FALSE, product |-> Product(p, 0, 0), in_stock |-> FALSE]

\* Variant: a product the catalog no longer has comes back as an empty
\* product of price 0.
get_products_batch_padded(cat, product_ids) ==
    [p \in product_ids |-> IF p \in DOMAIN cat THEN cat[p] ELSE Product(p, 0, 0)]

get_products_batch(cat, product_ids) ==
    [p \in product_ids \cap DOMAIN cat |-> cat[p]]

----------------------------------------------------------------------------
(* CartService: one Redis hash per user, field product_id -> JSON line *)

hget(store, u, p) == SelectSeq(store[u], LAMBDA l : l.product_id = p)

hset(store, u, p, item) ==
    IF hget(store, u, p) # <<>>
    THEN [store EXCEPT ![u] =
            [i \in DOMAIN @ |-> IF @[i].product_id = p THEN item ELSE @[i]]]
    ELSE [store EXCEPT ![u] = Append(@, item)]

hdel(store, u, p) ==
    [store EXCEPT ![u] = SelectSeq(@, LAMBDA l : l.product_id # p)]

\* Variant: the new line is written before its quantity is filled in.
add_item_new_line_unset(p, quantity, options) ==
    [product_id |-> p, quantity |-> 0, options |-> options]

\* "options or {}": no options given is the empty dict.
add_item_new_line(p, quantity, options) ==
    [product_id |-> p, quantity |-> quantity, options |-> options]

\* Variant: an existing line is overwritten by the call's quantity and options.
add_item_overwriting(store, u, p, quantity, options) ==
    hset(store, u, p, add_item_new_line(p, quantity, options))

add_item(store, u, p, quantity, options) ==
    LET current_data == hget(store, u, p) IN
    IF current_data # <<>>
    THEN hset(store, u, p,
              [current_data[1] EXCEPT !.quantity = @ + quantity])
    ELSE hset(store, u, p, add_item_new_line(p, quantity, options))

remove_item(store, u, p) == hdel(store, u, p)

\* Variant: the quantity is stored whatever its sign.
update_quantity_storing(store, u, p, quantity) ==
    LET current_data == hget(store, u, p) IN
    IF current_data = <<>> THEN store
    ELSE hset(store, u, p, [current_data[1] EXCEPT !.quantity = quantity])

update_quantity(store, u, p, quantity) ==
    IF quantity <= 0 THEN remove_item(store, u, p)
    ELSE LET current_data == hget(store, u, p) IN
         IF current_data = <<>> THEN store
         ELSE hset(store, u, p, [current_data[1] EXCEPT !.quantity = quantity])

\* Variant: the subtotal forgets the quantity.
CartItem_unit_price(line, product) ==
    [product_id |-> line.product_id, product |-> product,
     quantity |-> line.quantity, options |-> line.options,
     subtotal |-> product.price]

CartItem(line, product) ==
    [product_id |-> line.product_id, product |-> product,
     quantity |-> line.quantity, options |-> line.options,
     subtotal |-> product.price * line.quantity]

RECURSIVE get_cart_items(_, _)
get_cart_items(lines, products) ==
    IF lines = <<>> THEN <<>>
    ELSE LET line == Head(lines)
             rest == get_cart_items(Tail(lines), products)
         IN IF line.product_id \in DOMAIN products
            THEN <<CartItem(line, products[line.product_id])>> \o rest
            ELSE rest

get_cart_total(items) == SumSeq([i \in DOMAIN items |-> items[i].subtotal])

get_cart(store, cat, u) ==
    IF store[u] = <<>> THEN [items |-> <<>>, total |-> 0]
    ELSE LET product_ids == {store[u][i].product_id : i \in DOMAIN store[u]}
             products == get_products_batch(cat, product_ids)
             items == get_cart_items(store[u], products)
         IN [items |-> items, total |-> get_cart_total(items)]

get_item_count(store, u) == Len(store[u])

\* A clear that leaves the last line in place (not what the code does).
clear_cart_keeping_last(store, u) ==
    [store EXCEPT ![u] = IF Len(@) > 1 THEN <<@[Len(@)]>> ELSE <<>>]

clear_cart(store, u) == [store EXCEPT ![u] = <<>>]

\* Quantity the cart handlers read for product p out of the cart view.
ViewQty(view, p) ==
    LET hit == SelectSeq(view.items, LAMBDA it : it.product_id = p) IN
    IF hit = <<>> THEN 0 ELSE hit[1].quantity

StoredQty(store, u, p) ==
    LET hit == hget(store, u, p) IN IF hit = <<>> THEN 0 ELSE hit[1].quantity

\* Handler tasks that may overlap: each update is handled in a task of its
\* own, and a task gives way at every await.
Tasks == {1, 2}

IdleTask ==
    [pc |-> "idle", user |-> 0, product |-> 0, quantity |-> 0,
     current_data |-> <<>>, current_qty |-> 0]

NoneInFlight == [initial |-> 0, task |-> [t \in Tasks |-> IdleTask]]

----------------------------------------------------------------------------
(* Initial state: empty stores, every product listed *)

Init ==
    /\ catalog = [p \in Products |-> Product(p, 5, 1)]
    /\ cart = [u \in Users |-> <<>>]
    /\ profile = [u \in Users |->
                    [phone |-> NoPhone, email |-> <<>>, opencart_customer_id |-> 0]]
    /\ fsm = [u \in Users |-> "none"]
    /\ data = [u \in Users |-> NoData]
    /\ orders = <<>>
    /\ gateway = [created |-> {}, paid |-> {}]
    /\ storefront = [customer_calls |-> [u \in Users |-> 0], orders |-> <<>>]
    /\ fx = 0
    /\ inflight = NoneInFlight
    /\ throttle = [kind \in EventTypes |-> [u \in Users |-> 0]]
    /\ reply = Reply("init", 0, 0, "")

----------------------------------------------------------------------------
(* The catalog is owned by the storefront: prices, stock and listings change *)

catalog_set_price(p, price) ==
    /\ p \in DOMAIN catalog
    /\ catalog[p].price # price
    /\ catalog' = [catalog EXCEPT ![p].price = price]
    /\ reply' = EnvStep
    /\ UNCHANGED <<cart, profile, fsm, data, orders, gateway, storefront, fx, inflight, throttle>>

catalog_set_stock(p, quantity) ==
    /\ p \in DOMAIN catalog
    /\ catalog[p].quantity # quantity
    /\ catalog' = [catalog EXCEPT ![p].quantity = quantity]
    /\ reply' = EnvStep
    /\ UNCHANGED <<cart, profile, fsm, data, orders, gateway, storefront, fx, inflight, throttle>>

catalog_unlist(p) ==
    /\ p \in DOMAIN catalog
    /\ catalog' = [q \in DOMAIN catalog \ {p} |-> catalog[q]]
    /\ reply' = EnvStep
    /\ UNCHANGED <<cart, profile, fsm, data, orders, gateway, storefront, fx, inflight, throttle>>

catalog_list(p, price, quantity) ==
    /\ p \notin DOMAIN catalog
    /\ catalog' = [q \in DOMAIN catalog \cup {p} |->
                     IF q = p THEN Product(p, price, quantity) ELSE catalog[q]]
    /\ reply' = EnvStep
    /\ UNCHANGED <<cart, profile, fsm, data, orders, gateway, storefront, fx, inflight, throttle>>

\* Redis drops a cart hash that was not written for CART_EXPIRE_DAYS.
cart_expire(u) ==
    /\ cart[u] # <<>>
    /\ cart' = [cart EXCEPT ![u] = <<>>]
    /\ reply' = EnvStep
    /\ UNCHANGED <<catalog, profile, fsm, data, orders, gateway, storefront, fx, inflight, throttle>>

----------------------------------------------------------------------------
(* Cart handlers *)

add_to_cart(u, p) ==
    LET product == get_product_details(catalog, p) IN
    /\ StoredQty(cart, u, p) < MaxQty
    /\ IF ~product.found
       THEN /\ reply' = Reply("add_to_cart", u, p, "not_found")
            /\ UNCHANGED cart
       ELSE IF ~product.in_stock
       THEN /\ reply' = Reply("add_to_cart", u, p, "out_of_stock")
            /\ UNCHANGED cart
       ELSE /\ cart' = add_item(cart, u, p, 1, NoOptions)
            /\ reply' = Reply("add_to_cart", u, p, "added")
    /\ UNCHANGED <<catalog, profile, fsm, data, orders, gateway, storefront, fx, inflight, throttle>>

show_cart(u) ==
    LET view == get_cart(cart, catalog, u) IN
    /\ reply' = Reply("show_cart", u, 0,
                      IF view.items = <<>> THEN "empty" ELSE "summary")
    /\ UNCHANGED <<catalog, cart, profile, fsm, data, orders, gateway, storefront, fx, inflight, throttle>>

cart_increase_quantity(u, p) ==
    LET view == get_cart(cart, catalog, u)
        current_qty == ViewQty(view, p)
    IN
    /\ current_qty < MaxQty
    /\ IF current_qty = 0
       THEN /\ reply' = Reply("cart_inc", u, p, "not_in_cart")
            /\ UNCHANGED cart
       ELSE /\ cart' = update_quantity(cart, u, p, current_qty + 1)
            /\ reply' = Reply("cart_inc", u, p, "increased")
    /\ UNCHANGED <<catalog, profile, fsm, data, orders, gateway, storefront, fx, inflight, throttle>>

cart_decrease_quantity(u, p) ==
    LET view == get_cart(cart, catalog, u)
        current_qty == ViewQty(view, p)
        new_qty == current_qty - 1
    IN
    /\ IF current_qty = 0
       THEN /\ reply' = Reply("cart_dec", u, p, "not_in_cart")
            /\ UNCHANGED cart
       ELSE IF new_qty <= 0
       THEN /\ cart' = remove_item(cart, u, p)
            /\ reply' = Reply("cart_dec", u, p, "removed")
       ELSE /\ cart' = update_quantity(cart, u, p, new_qty)
            /\ reply' = Reply("cart_dec", u, p, "decreased")
    /\ UNCHANGED <<catalog, profile, fsm, data, orders, gateway, storefront, fx, inflight, throttle>>

cart_remove_item(u, p) ==
    /\ cart' = remove_item(cart, u, p)
    /\ reply' = Reply("cart_remove", u, p,
                      IF hget(cart, u, p) # <<>> THEN "removed" ELSE "not_in_cart")
    /\ UNCHANGED <<catalog, profile, fsm, data, orders, gateway, storefront, fx, inflight, throttle>>

clear_cart_handler(u) ==
    /\ cart' = clear_cart(cart, u)
    /\ reply' = Reply("clear_cart", u, 0, "cleared")
    /\ UNCHANGED <<catalog, profile, fsm, data, orders, gateway, storefront, fx, inflight, throttle>>

----------------------------------------------------------------------------
(* CartService called directly, with any arguments a caller may pass *)

CartService_add_item(u, p, quantity, options) ==
    /\ StoredQty(cart, u, p) + quantity <= MaxQty
    /\ cart' = add_item(cart, u, p, quantity, options)
    /\ reply' = ReplyNote("add_item", u, p, "true", <<StoredQty(cart, u, p)>>)
    /\ UNCHANGED <<catalog, profile, fsm, data, orders, gateway, storefront, fx, inflight, throttle>>

CartService_remove_item(u, p) ==
    /\ cart' = remove_item(cart, u, p)
    /\ reply' = Reply("remove_item", u, p,
                      IF hget(cart, u, p) # <<>> THEN "true" ELSE "false")
    /\ UNCHANGED <<catalog, profile, fsm, data, orders, gateway, storefront, fx, inflight, throttle>>

CartService_update_quantity(u, p, quantity) ==
    /\ cart' = update_quantity(cart, u, p, quantity)
    /\ reply' = Reply("update_quantity", u, p,
                      IF hget(cart, u, p) # <<>> THEN "true" ELSE "false")
    /\ UNCHANGED <<catalog, profile, fsm, data, orders, gateway, storefront, fx, inflight, throttle>>

CartService_get_cart(u) ==
    /\ reply' = ReplyNote("get_cart", u, 0, "view", get_cart(cart, catalog, u))
    /\ UNCHANGED <<catalog, cart, profile, fsm, data, orders, gateway,
                   storefront, fx, inflight, throttle>>

CartService_clear_cart(u) ==
    /\ cart' = clear_cart(cart, u)
    /\ reply' = Reply("clear_cart", u, 0, "true")
    /\ UNCHANGED <<catalog, profile, fsm, data, orders, gateway, storefront, fx, inflight, throttle>>

----------------------------------------------------------------------------
(* Cart operations step by step: the read and the write are separate awaits *)

\* The quantity stored when the first of the overlapping tasks begins.
InitialOf(t, u, p) ==
    IF \A o \in Tasks : inflight.task[o].pc = "idle"
    THEN StoredQty(cart, u, p) ELSE inflight.initial

\* add_item up to and including "current_data = await hget(...)".
add_item_hget(t, u, p, quantity) ==
    /\ inflight.task[t].pc = "idle"
    /\ inflight' = [initial |-> InitialOf(t, u, p),
                    task |-> [inflight.task EXCEPT ![t] =
                                [pc |-> "add_item_hset", user |-> u,
                                 product |-> p, quantity |-> quantity,
                                 current_data |-> hget(cart, u, p),
                                 current_qty |-> 0]]]
    /\ reply' = Reply("add_item_hget", u, p, "")
    /\ UNCHANGED <<catalog, cart, profile, fsm, data, orders, gateway,
                   storefront, fx, throttle>>

\* add_item from the item it builds out of what it read to "await hset(...)".
add_item_hset(t) ==
    LET task == inflight.task[t]
        item_data == IF task.current_data # <<>>
                     THEN [task.current_data[1] EXCEPT
                             !.quantity = @ + task.quantity]
                     ELSE add_item_new_line(task.product, task.quantity,
                                            NoOptions)
    IN
    /\ task.pc = "add_item_hset"
    /\ cart' = hset(cart, task.user, task.product, item_data)
    /\ inflight' = [inflight EXCEPT !.task[t].pc = "done"]
    /\ reply' = Reply("add_item", task.user, task.product, "true")
    /\ UNCHANGED <<catalog, profile, fsm, data, orders, gateway, storefront, fx, throttle>>

\* cart_increase_quantity up to the quantity it finds in "await get_cart(...)".
cart_increase_quantity_get_cart(t, u, p) ==
    LET current_qty == ViewQty(get_cart(cart, catalog, u), p) IN
    /\ inflight.task[t].pc = "idle"
    /\ current_qty # 0
    /\ inflight' = [initial |-> InitialOf(t, u, p),
                    task |-> [inflight.task EXCEPT ![t] =
                                [pc |-> "cart_inc_update", user |-> u,
                                 product |-> p, quantity |-> 1,
                                 current_data |-> <<>>,
                                 current_qty |-> current_qty]]]
    /\ reply' = Reply("cart_inc_get_cart", u, p, "")
    /\ UNCHANGED <<catalog, cart, profile, fsm, data, orders, gateway,
                   storefront, fx, throttle>>

\* cart_increase_quantity from "new_qty = current_qty + 1" on.
cart_increase_quantity_update(t) ==
    LET task == inflight.task[t]
        new_qty == task.current_qty + 1
    IN
    /\ task.pc = "cart_inc_update"
    /\ cart' = update_quantity(cart, task.user, task.product, new_qty)
    /\ inflight' = [inflight EXCEPT !.task[t].pc = "done"]
    /\ reply' = Reply("cart_inc", task.user, task.product, "increased")
    /\ UNCHANGED <<catalog, profile, fsm, data, orders, gateway, storefront, fx, throttle>>

----------------------------------------------------------------------------
(* Checkout dialogue: aiogram FSM state and data per user *)

CheckoutStates ==
    {"waiting_name", "waiting_phone", "waiting_email", "waiting_address",
     "waiting_comment", "confirm"}

\* The states the checkout and payment handlers are registered on, and the
\* states they pass to set_state.
FilterStates ==
    {"waiting_phone", "waiting_phone_manual", "waiting_name",
     "waiting_address", "confirm"}

TransitionStates ==
    {"waiting_phone", "waiting_phone_manual", "confirm", "waiting_name",
     "waiting_address"}

\* CheckoutStates.<name> evaluates only for a declared state.
StateDeclared(name) == name \in CheckoutStates

\* The state filter of a handler registered on CheckoutStates.<name>.
StateFilter(name, u) == StateDeclared(name) /\ fsm[u] = name

set_state(f, u, name) == [f EXCEPT ![u] = name]

\* A merge in which the keys already stored win (not what the code does).
update_data_keeping_old(d, kv) ==
    [k \in DOMAIN d \cup DOMAIN kv |-> IF k \in DOMAIN d THEN d[k] ELSE kv[k]]

update_data(d, kv) ==
    [k \in DOMAIN d \cup DOMAIN kv |-> IF k \in DOMAIN kv THEN kv[k] ELSE d[k]]

state_clear_fsm(f, u) == [f EXCEPT ![u] = "none"]
state_clear_data(d, u) == [d EXCEPT ![u] = NoData]

update_phone(prof, u, phone) == [prof EXCEPT ![u].phone = phone]

\* str.strip(), str.startswith() and the digit filter of process_phone_manual
RECURSIVE lstrip(_)
lstrip(t) == IF t # <<>> /\ Head(t) = " " THEN lstrip(Tail(t)) ELSE t

RECURSIVE rstrip(_)
rstrip(t) ==
    IF t # <<>> /\ t[Len(t)] = " " THEN rstrip(SubSeq(t, 1, Len(t) - 1)) ELSE t

strip(t) == rstrip(lstrip(t))

startswith(t, c) == t # <<>> /\ Head(t) = c

phone_digits(t) == SelectSeq(t, LAMBDA c : c \in Digits)

MinPhoneDigits == 10

phone_is_valid(t) == Len(phone_digits(strip(t))) >= MinPhoneDigits

format_phone(t) ==
    LET phone == strip(t) IN
    IF startswith(phone, "8") THEN <<"+", "7">> \o Tail(phone_digits(phone))
    ELSE IF ~startswith(phone, "+") THEN <<"+">> \o phone_digits(phone)
    ELSE phone

full_name(u) ==
    IF last_name(u) # <<>> THEN first_name(u) \o <<" ">> \o last_name(u)
    ELSE first_name(u)

checkout_email(prof, u) ==
    IF prof[u].email # <<>> THEN prof[u].email
    ELSE IF username(u) # <<>> THEN username(u) \o AtTelegramUser
    ELSE <<>>

ask_for_phone(f, u) == set_state(f, u, "waiting_phone")

show_order_confirmation(f, u) == set_state(f, u, "confirm")

\* A checkout entry that does not look at the cart (not what the code does).
start_checkout_unguarded(u) ==
    /\ data' = [data EXCEPT ![u] =
                  update_data(@, [name |-> full_name(u),
                                  phone |-> profile[u].phone,
                                  email |-> checkout_email(profile, u),
                                  address |-> Pickup,
                                  needs_phone |-> (profile[u].phone = NoPhone)])]
    /\ fsm' = IF profile[u].phone = NoPhone
              THEN ask_for_phone(fsm, u)
              ELSE show_order_confirmation(fsm, u)
    /\ reply' = Reply("start_checkout", u, 0, "ask_phone")
    /\ UNCHANGED <<catalog, cart, profile, orders, gateway, storefront, fx, inflight, throttle>>

start_checkout(u) ==
    LET view == get_cart(cart, catalog, u)
        phone == IF profile[u].phone # <<>> THEN profile[u].phone ELSE NoPhone
    IN
    /\ IF view.items = <<>>
       THEN /\ reply' = Reply("start_checkout", u, 0, "cart_empty")
            /\ UNCHANGED <<fsm, data>>
       ELSE /\ data' = [data EXCEPT ![u] =
                          update_data(@, [name |-> full_name(u),
                                          phone |-> phone,
                                          email |-> checkout_email(profile, u),
                                          address |-> Pickup,
                                          needs_phone |-> (phone = NoPhone)])]
            /\ IF phone = NoPhone
               THEN /\ fsm' = ask_for_phone(fsm, u)
                    /\ reply' = ReplyNote("start_checkout", u, 0, "ask_phone",
                                          <<fsm[u]>>)
               ELSE /\ fsm' = show_order_confirmation(fsm, u)
                    /\ reply' = ReplyNote("start_checkout", u, 0,
                                          "confirmation", <<fsm[u]>>)
    /\ UNCHANGED <<catalog, cart, profile, orders, gateway, storefront, fx, inflight, throttle>>

process_contact(u, contact_user_id, phone_number) ==
    /\ StateFilter("waiting_phone", u)
    /\ IF contact_user_id # u
       THEN /\ reply' = Reply("process_contact", u, 0, "not_own_contact")
            /\ UNCHANGED <<fsm, data, profile>>
       ELSE LET phone == IF startswith(phone_number, "+") THEN phone_number
                         ELSE <<"+">> \o phone_number
            IN /\ data' = [data EXCEPT ![u] =
                             update_data(@, [phone |-> phone, needs_phone |-> FALSE])]
               /\ profile' = update_phone(profile, u, phone)
               /\ fsm' = show_order_confirmation(fsm, u)
               /\ reply' = Reply("process_contact", u, 0, "confirmation")
    /\ UNCHANGED <<catalog, cart, orders, gateway, storefront, fx, inflight, throttle>>

\* set_state(CheckoutStates.waiting_phone_manual): the attribute lookup raises
\* when the state is not declared, and the handler ends there.
ask_manual_phone(u) ==
    /\ IF StateDeclared("waiting_phone_manual")
       THEN /\ fsm' = set_state(fsm, u, "waiting_phone_manual")
            /\ reply' = Reply("ask_manual_phone", u, 0, "enter_phone")
       ELSE /\ reply' = Reply("ask_manual_phone", u, 0, "error")
            /\ UNCHANGED fsm
    /\ UNCHANGED <<data, profile>>

process_phone_manual(u, text) ==
    IF ~phone_is_valid(text)
    THEN /\ reply' = Reply("process_phone_manual", u, 0, "bad_phone")
         /\ UNCHANGED <<fsm, data, profile>>
    ELSE /\ data' = [data EXCEPT ![u] =
                       update_data(@, [phone |-> format_phone(text),
                                       needs_phone |-> FALSE])]
         /\ profile' = update_phone(profile, u, format_phone(text))
         /\ fsm' = show_order_confirmation(fsm, u)
         /\ reply' = Reply("process_phone_manual", u, 0, "confirmation")

MinNameLength == 2

process_name_edit(u, text) ==
    LET name == strip(text) IN
    IF Len(name) < MinNameLength
    THEN /\ reply' = Reply("process_name_edit", u, 0, "name_too_short")
         /\ UNCHANGED <<fsm, data, profile>>
    ELSE /\ data' = [data EXCEPT ![u] = update_data(@, [name |-> name])]
         /\ fsm' = show_order_confirmation(fsm, u)
         /\ reply' = Reply("process_name_edit", u, 0, "confirmation")
         /\ UNCHANGED profile

MinAddressLength == 5

\* Variant: storing the address starts the draft's name over.
process_address_edit_dropping_name(u, text) ==
    LET address == strip(text) IN
    IF Len(address) < MinAddressLength
    THEN /\ reply' = Reply("process_address_edit", u, 0, "address_too_short")
         /\ UNCHANGED <<fsm, data, profile>>
    ELSE /\ data' = [data EXCEPT ![u] =
                       update_data(@, [address |-> address, name |-> <<>>])]
         /\ fsm' = show_order_confirmation(fsm, u)
         /\ reply' = Reply("process_address_edit", u, 0, "confirmation")
         /\ UNCHANGED profile

process_address_edit(u, text) ==
    LET address == strip(text) IN
    IF Len(address) < MinAddressLength
    THEN /\ reply' = Reply("process_address_edit", u, 0, "address_too_short")
         /\ UNCHANGED <<fsm, data, profile>>
    ELSE /\ data' = [data EXCEPT ![u] = update_data(@, [address |-> address])]
         /\ fsm' = show_order_confirmation(fsm, u)
         /\ reply' = Reply("process_address_edit", u, 0, "confirmation")
         /\ UNCHANGED profile

\* A text message of user u, routed as the checkout router registers its
\* message handlers; a text no handler accepts changes nothing.
message_text(u, text) ==
    /\ IF StateFilter("waiting_phone", u) /\ text = ManualPhoneButton
       THEN ask_manual_phone(u)
       ELSE IF StateFilter("waiting_phone_manual", u)
       THEN process_phone_manual(u, text)
       ELSE IF StateFilter("waiting_name", u)
       THEN process_name_edit(u, text)
       ELSE IF StateFilter("waiting_address", u)
       THEN process_address_edit(u, text)
       ELSE /\ reply' = Reply("message", u, 0, "unhandled")
            /\ UNCHANGED <<fsm, data, profile>>
    /\ UNCHANGED <<catalog, cart, orders, gateway, storefront, fx, inflight, throttle>>

edit_name(u) ==
    /\ StateFilter("confirm", u)
    /\ fsm' = set_state(fsm, u, "waiting_name")
    /\ reply' = Reply("edit_name", u, 0, "enter_name")
    /\ UNCHANGED <<catalog, cart, profile, data, orders, gateway, storefront, fx, inflight, throttle>>

edit_address(u) ==
    /\ StateFilter("confirm", u)
    /\ fsm' = set_state(fsm, u, "waiting_address")
    /\ reply' = Reply("edit_address", u, 0, "enter_address")
    /\ UNCHANGED <<catalog, cart, profile, data, orders, gateway, storefront, fx, inflight, throttle>>

skip_address(u) ==
    /\ StateFilter("waiting_address", u)
    /\ data' = [data EXCEPT ![u] = update_data(@, [address |-> Pickup])]
    /\ fsm' = show_order_confirmation(fsm, u)
    /\ reply' = Reply("skip_address", u, 0, "confirmation")
    /\ UNCHANGED <<catalog, cart, profile, orders, gateway, storefront, fx, inflight, throttle>>

edit_phone(u) ==
    /\ StateFilter("confirm", u)
    /\ fsm' = ask_for_phone(fsm, u)
    /\ reply' = Reply("edit_phone", u, 0, "ask_phone")
    /\ UNCHANGED <<catalog, cart, profile, data, orders, gateway, storefront, fx, inflight, throttle>>

cancel_order(u) ==
    /\ StateFilter("confirm", u)
    /\ fsm' = state_clear_fsm(fsm, u)
    /\ data' = state_clear_data(data, u)
    /\ reply' = Reply("cancel_order", u, 0, "cancelled")
    /\ UNCHANGED <<catalog, cart, profile, orders, gateway, storefront, fx, inflight, throttle>>

cmd_start(u) ==
    /\ fsm' = state_clear_fsm(fsm, u)
    /\ data' = state_clear_data(data, u)
    /\ reply' = Reply("cmd_start", u, 0, "welcome")
    /\ UNCHANGED <<catalog, cart, profile, orders, gateway, storefront, fx, inflight, throttle>>

\* The "cancel_order" callback while the dialogue is not at the confirmation:
\* the handler's state filter rejects it, no other handler takes that callback
\* data, and the update is dropped.
cancel_order_unhandled(u) ==
    /\ ~StateFilter("confirm", u)
    /\ reply' = Reply("cancel_order", u, 0, "unhandled")
    /\ UNCHANGED <<catalog, cart, profile, fsm, data, orders, gateway,
                   storefront, fx, inflight, throttle>>

callback_start(u) ==
    /\ fsm' = state_clear_fsm(fsm, u)
    /\ data' = state_clear_data(data, u)
    /\ reply' = Reply("callback_start", u, 0, "main_menu")
    /\ UNCHANGED <<catalog, cart, profile, orders, gateway, storefront, fx, inflight, throttle>>

----------------------------------------------------------------------------
(* OrderService, YooMoneyService and the OpenCart write API *)

NoLabel == <<>>

dict_get(d, k, default) == IF k \in DOMAIN d THEN d[k] ELSE default

\* Variant: the snapshot takes the line's subtotal for the unit price.
OrderItem_subtotal_as_price(cart_item) ==
    [product_id |-> cart_item.product.product_id,
     name |-> cart_item.product.name,
     model |-> cart_item.product.model,
     price |-> cart_item.subtotal,
     quantity |-> cart_item.quantity]

OrderItem(cart_item) ==
    [product_id |-> cart_item.product.product_id,
     name |-> cart_item.product.name,
     model |-> cart_item.product.model,
     price |-> cart_item.product.price,
     quantity |-> cart_item.quantity]

create_order(id, user_id, view, delivery_data) ==
    [id |-> id,
     user_id |-> user_id,
     amount |-> view.total,
     status |-> "pending",
     customer_name |-> dict_get(delivery_data, "name", <<>>),
     customer_phone |-> dict_get(delivery_data, "phone", <<>>),
     customer_email |-> dict_get(delivery_data, "email", <<>>),
     delivery_address |-> dict_get(delivery_data, "address", <<>>),
     delivery_comment |-> dict_get(delivery_data, "comment", <<>>),
     items |-> [i \in DOMAIN view.items |-> OrderItem(view.items[i])],
     yoomoney_label |-> NoLabel,
     opencart_order_id |-> 0,
     paid_at |-> FALSE]

get_order(ords, order_id) ==
    IF order_id \in DOMAIN ords
    THEN [found |-> TRUE, order |-> ords[order_id]]
    ELSE [found |-> FALSE, order |-> <<>>]

\* A status write that also zeroes the amount (not what the code does).
update_status_touching_amount(ords, order_id, status, db_ok) ==
    IF db_ok /\ order_id \in DOMAIN ords
    THEN [ords EXCEPT ![order_id].status = status,
                      ![order_id].amount = 0]
    ELSE ords

\* UPDATE orders SET status = ..., paid_at = now() when paid; a failed
\* commit is rolled back and reported by the return value only.
update_status(ords, order_id, status, db_ok) ==
    IF db_ok /\ order_id \in DOMAIN ords
    THEN [ords EXCEPT ![order_id].status = status,
                      ![order_id].paid_at = IF status = "paid" THEN TRUE ELSE @]
    ELSE ords

update_payment_label(ords, order_id, label, db_ok) ==
    IF db_ok /\ order_id \in DOMAIN ords
    THEN [ords EXCEPT ![order_id].yoomoney_label = label]
    ELSE ords

\* An id write whose failure takes the status write back with it (not what
\* the code does: update_status has committed before).
update_opencart_order_id_undoing(ords, order_id, opencart_order_id, db_ok) ==
    IF order_id \notin DOMAIN ords THEN ords
    ELSE IF db_ok
    THEN [ords EXCEPT ![order_id].opencart_order_id = opencart_order_id]
    ELSE [ords EXCEPT ![order_id].status = "pending"]

update_opencart_order_id(ords, order_id, opencart_order_id, db_ok) ==
    IF db_ok /\ order_id \in DOMAIN ords
    THEN [ords EXCEPT ![order_id].opencart_order_id = opencart_order_id]
    ELSE ords

\* label = f"order_{order_id}_{int(time.time())}": one label per call, and
\* create_payment is called once per order id.
payment_label(order_id) == <<"order", order_id>>

yoomoney_check_payment(gw, label, request_fails) ==
    IF request_fails THEN "error"
    ELSE IF label \in gw.paid THEN "success"
    ELSE "pending"

\* OpenCartService.create_customer answers customer_id 0 whether or not the
\* API call went through.
oc_create_customer(api_ok) == [customer_id |-> 0, success |-> api_ok]

\* OpenCartService.create_order: outcome "order_id" (order added, id in the
\* response), "no_order_id" (order added, no id in the response) or "failed".
oc_create_order(sf, bot_order_id, outcome) ==
    IF outcome = "failed"
    THEN [storefront |-> sf, order_id |-> 0]
    ELSE [storefront |-> [sf EXCEPT !.orders = Append(@, bot_order_id)],
          order_id |-> IF outcome = "order_id" THEN Len(sf.orders) + 1 ELSE 0]

OcOutcomes == {"order_id", "no_order_id", "failed"}

MirrorCount(o) ==
    Cardinality({i \in DOMAIN storefront.orders : storefront.orders[i] = o})

----------------------------------------------------------------------------
(* Payment handlers *)

\* Variant: the order is created without looking at the cart view.
confirm_and_create_order_unchecked(u, pay_ok, label_ok) ==
    LET checkout_data == data[u]
        view == get_cart(cart, catalog, u)
        order == create_order(Len(orders) + 1, u, view, checkout_data)
        label == payment_label(order.id)
    IN
    /\ StateFilter("confirm", u)
    /\ fsm' = state_clear_fsm(fsm, u)
    /\ data' = state_clear_data(data, u)
    /\ orders' = update_payment_label(Append(orders, order), order.id, label,
                                      label_ok)
    /\ gateway' = [gateway EXCEPT !.created = @ \cup {label}]
    /\ reply' = ReplyNote("confirm_order", u, order.id, "order_created", label)
    /\ UNCHANGED <<catalog, cart, profile, storefront, fx, inflight, throttle>>

confirm_and_create_order(u, pay_ok, label_ok) ==
    LET checkout_data == data[u]
        view == get_cart(cart, catalog, u)
        order == create_order(Len(orders) + 1, u, view, checkout_data)
        label == payment_label(order.id)
    IN
    /\ StateFilter("confirm", u)
    /\ fsm' = state_clear_fsm(fsm, u)
    /\ data' = state_clear_data(data, u)
    /\ IF view.items = <<>>
       THEN /\ reply' = Reply("confirm_order", u, 0, "cart_empty")
            /\ UNCHANGED <<orders, gateway>>
       ELSE /\ IF ~pay_ok
               THEN /\ orders' = Append(orders, order)
                    /\ reply' = Reply("confirm_order", u, order.id, "error")
                    /\ UNCHANGED gateway
               ELSE /\ orders' = update_payment_label(Append(orders, order),
                                                      order.id, label, label_ok)
                    /\ gateway' = [gateway EXCEPT !.created = @ \cup {label}]
                    /\ reply' = ReplyNote("confirm_order", u, order.id,
                                          "order_created", label)
    /\ UNCHANGED <<catalog, cart, profile, storefront, fx, inflight, throttle>>

\* The mirroring block of check_payment; every failure in it is swallowed.
\* The result holds the tables after the block.
mirror_order(ords, prof, sf, order, customer_ok, oc_outcome, record_ok) ==
    LET user == prof[order.user_id]
        need_customer == user.opencart_customer_id = 0
        oc_customer == oc_create_customer(customer_ok)
        created == oc_create_order(sf, order.id, oc_outcome)
    IN
    [storefront |->
        IF need_customer
        THEN [created.storefront EXCEPT !.customer_calls[order.user_id] = @ + 1]
        ELSE created.storefront,
     profile |->
        IF need_customer /\ oc_customer.customer_id # 0
        THEN [prof EXCEPT ![order.user_id].opencart_customer_id =
                             oc_customer.customer_id]
        ELSE prof,
     orders |->
        IF created.order_id # 0
        THEN update_opencart_order_id(ords, order.id, created.order_id, record_ok)
        ELSE ords]

\* What the three steps of the mirroring block did (the handler logs it).
mirror_note(prof, order, customer_ok, oc_outcome, record_ok) ==
    <<IF prof[order.user_id].opencart_customer_id # 0 THEN "skipped"
      ELSE IF customer_ok THEN "ok" ELSE "failed",
      IF oc_outcome = "failed" THEN "failed" ELSE "ok",
      IF oc_outcome # "order_id" THEN "skipped"
      ELSE IF record_ok THEN "ok" ELSE "failed">>

\* What a successful check did: the three steps of the mirroring block, and
\* the number of cart lines its clear_cart deleted.
check_payment_note(store, prof, order, customer_ok, oc_outcome, record_ok) ==
    Append(mirror_note(prof, order, customer_ok, oc_outcome, record_ok),
           Len(store[order.user_id]))

check_payment_paid(ords, order, db_ok) ==
    update_status(ords, order.id, "paid", db_ok)

check_payment(u, order_id, gw_fails, db_ok, customer_ok, oc_outcome, record_ok) ==
    LET got == get_order(orders, order_id)
        order == got.order
    IN
    /\ IF ~got.found
       THEN /\ reply' = Reply("check_payment", u, order_id, "not_found")
            /\ UNCHANGED <<cart, profile, orders, storefront, fx, inflight, throttle>>
       ELSE IF order.status = "paid"
       THEN /\ reply' = Reply("check_payment", u, order_id, "already_paid")
            /\ UNCHANGED <<cart, profile, orders, storefront, fx, inflight, throttle>>
       ELSE LET payment_status ==
                    yoomoney_check_payment(gateway, order.yoomoney_label, gw_fails)
                m == mirror_order(check_payment_paid(orders, order, db_ok),
                                  profile, storefront, order,
                                  customer_ok, oc_outcome, record_ok)
            IN IF payment_status = "success"
               THEN /\ fx < MaxChecks
                    /\ reply' = ReplyNote("check_payment", u, order_id,
                                          "payment_success",
                                          check_payment_note(cart, profile, order,
                                                             customer_ok, oc_outcome,
                                                             record_ok))
                    /\ orders' = m.orders
                    /\ cart' = clear_cart(cart, order.user_id)
                    /\ profile' = m.profile
                    /\ storefront' = m.storefront
                    /\ fx' = fx + 1
                    /\ UNCHANGED <<inflight, throttle>>
               ELSE /\ reply' = Reply("check_payment", u, order_id,
                                      IF payment_status = "pending"
                                      THEN "not_paid_yet" ELSE "check_failed")
                    /\ UNCHANGED <<cart, profile, orders, storefront, fx, inflight, throttle>>
    /\ UNCHANGED <<catalog, fsm, data, gateway>>

cancel_payment(u, order_id, db_ok) ==
    LET got == get_order(orders, order_id)
        order == got.order
    IN
    /\ IF ~got.found
       THEN /\ reply' = Reply("cancel_payment", u, order_id, "not_found")
            /\ UNCHANGED orders
       ELSE IF order.status = "paid"
       THEN /\ reply' = Reply("cancel_payment", u, order_id, "already_paid")
            /\ UNCHANGED orders
       ELSE /\ orders' = update_status(orders, order.id, "cancelled", db_ok)
            /\ reply' = Reply("cancel_payment", u, order_id, "cancelled")
    /\ UNCHANGED <<catalog, cart, profile, fsm, data, gateway, storefront, fx, inflight, throttle>>

----------------------------------------------------------------------------
(* Admin handlers (the admin is no shop user: reply.user is 0) *)

admin_complete_order(order_id, db_ok) ==
    /\ orders' = update_status(orders, order_id, "completed", db_ok)
    /\ reply' = Reply("admin_complete", 0, order_id,
                      IF ~db_ok THEN "update_failed"
                      ELSE IF order_id \in DOMAIN orders THEN "completed"
                      ELSE "error")
    /\ UNCHANGED <<catalog, cart, profile, fsm, data, gateway, storefront, fx, inflight, throttle>>

admin_cancel_order(order_id, db_ok) ==
    /\ orders' = update_status(orders, order_id, "cancelled", db_ok)
    /\ reply' = Reply("admin_cancel", 0, order_id,
                      IF ~db_ok THEN "update_failed"
                      ELSE IF order_id \in DOMAIN orders THEN "cancelled"
                      ELSE "error")
    /\ UNCHANGED <<catalog, cart, profile, fsm, data, gateway, storefront, fx, inflight, throttle>>

\* The customer pays through the payment page of a created payment.
payment_arrives(label) ==
    /\ label \in gateway.created \ gateway.paid
    /\ gateway' = [gateway EXCEPT !.paid = @ \cup {label}]
    /\ reply' = EnvStep
    /\ UNCHANGED <<catalog, cart, profile, fsm, data, orders, storefront, fx, inflight, throttle>>

\* Money reaches the wallet outside any payment page: an operation with
\* status success and no label in the wallet's history.
transfer_arrives ==
    /\ NoLabel \notin gateway.paid
    /\ gateway' = [gateway EXCEPT !.paid = @ \cup {NoLabel}]
    /\ reply' = EnvStep
    /\ UNCHANGED <<catalog, cart, profile, fsm, data, orders, storefront, fx,
                   inflight, throttle>>

----------------------------------------------------------------------------
(* The life of one order: the customer orders once, pays, checks and
   cancels; the admin completes and cancels *)

\* What one run of check_payment meets: the gateway request, the status
\* write, the customer call, the storefront order call, the id write.
CheckRuns ==
    {<<TRUE, TRUE, TRUE, "order_id", TRUE>>}
    \cup {<<FALSE, db_ok, customer_ok, run[1], run[2]>> :
            db_ok \in BOOLEAN, customer_ok \in BOOLEAN,
            run \in {<<"order_id", TRUE>>, <<"order_id", FALSE>>,
                     <<"no_order_id", TRUE>>, <<"failed", TRUE>>}}

NextOrder ==
    \/ add_to_cart(1, 1)
    \/ \E price \in Prices : catalog_set_price(1, price)
    \/ start_checkout(1)
    \/ process_contact(1, 1, ContactPhone)
    \/ /\ orders = <<>>
       /\ \E pay_ok \in BOOLEAN, label_ok \in BOOLEAN :
             confirm_and_create_order(1, pay_ok, label_ok)
    \/ \E run \in CheckRuns :
          check_payment(1, 1, run[1], run[2], run[3], run[4], run[5])
    \/ \E db_ok \in BOOLEAN : cancel_payment(1, 1, db_ok)
    \/ \E db_ok \in BOOLEAN : admin_complete_order(1, db_ok)
    \/ \E db_ok \in BOOLEAN : admin_cancel_order(1, db_ok)
    \/ payment_arrives(payment_label(1))

SpecOrder == Init /\ [][NextOrder]_vars

----------------------------------------------------------------------------
(* One customer going through the checkout dialogue, again and again *)

NextCheckout ==
    \/ add_to_cart(1, 1)
    \/ clear_cart_handler(1)
    \/ catalog_unlist(1)
    \/ catalog_list(1, 5, 1)
    \/ start_checkout(1)
    \/ \E contact_user_id \in Users :
          process_contact(1, contact_user_id, ContactPhone)
    \/ \E text \in PhoneTexts : message_text(1, text)
    \/ edit_phone(1)
    \/ cancel_order(1)
    \/ cmd_start(1)
    \/ /\ Len(orders) < MaxOrders
       /\ \E pay_ok \in BOOLEAN, label_ok \in BOOLEAN :
             confirm_and_create_order(1, pay_ok, label_ok)

SpecCheckout == Init /\ [][NextCheckout]_vars

----------------------------------------------------------------------------
(* The whole dialogue of one customer: every step, edit, cancel and restart,
   up to the first order *)

\* What the customer types: a name while asked for a name, an address while
\* asked for an address, a phone number or the keyboard's button otherwise.
TextsIn(state) ==
    IF state = "waiting_name" THEN {ShortName, AnyName}
    ELSE IF state = "waiting_address" THEN {ShortAddress, AnyAddress}
    ELSE PhoneTexts

NextDialogue ==
    \/ add_to_cart(1, 1)
    \/ clear_cart_handler(1)
    \/ catalog_unlist(1)
    \/ catalog_list(1, 5, 1)
    \/ start_checkout(1)
    \/ \E contact_user_id \in Users :
          process_contact(1, contact_user_id, ContactPhone)
    \/ \E text \in TextsIn(fsm[1]) : message_text(1, text)
    \/ edit_phone(1)
    \/ edit_name(1)
    \/ edit_address(1)
    \/ skip_address(1)
    \/ cancel_order(1)
    \/ cancel_order_unhandled(1)
    \/ cmd_start(1)
    \/ callback_start(1)
    \/ /\ orders = <<>>
       /\ \E pay_ok \in BOOLEAN, label_ok \in BOOLEAN :
             confirm_and_create_order(1, pay_ok, label_ok)

SpecDialogue == Init /\ [][NextDialogue]_vars

\* The same dialogue with time passing: the cart key's time-to-live is the
\* one timer the program sets, and it does run out; the customer is free to
\* send nothing more.
NextDialogueTimed ==
    \/ NextDialogue
    \/ cart_expire(1)

SpecDialogueTimed ==
    Init /\ [][NextDialogueTimed]_vars /\ WF_vars(cart_expire(1))

----------------------------------------------------------------------------
(* The cart service under every call, against a catalog that loses and
   regains products *)

Quantities == 1..MaxQty
UpdateQuantities == (0 - 1)..MaxQty

\* The lines the calls address: two lines of user 1, one of user 2.
CartKeys == {<<1, 1>>, <<1, 2>>, <<2, 1>>}

NextCartService ==
    \/ \E k \in CartKeys, quantity \in Quantities, options \in OptionDicts :
          CartService_add_item(k[1], k[2], quantity, options)
    \/ \E k \in CartKeys : CartService_remove_item(k[1], k[2])
    \/ \E k \in CartKeys, quantity \in UpdateQuantities :
          CartService_update_quantity(k[1], k[2], quantity)
    \/ \E u \in Users : CartService_get_cart(u)
    \/ \E u \in Users : CartService_clear_cart(u)
    \/ catalog_unlist(1)
    \/ catalog_list(1, 5, 1)

SpecCartService == Init /\ [][NextCartService]_vars

----------------------------------------------------------------------------
(* One order of several lines, taken while prices move, then paid or
   cancelled *)

NextSnapshot ==
    \/ \E p \in Products : add_to_cart(1, p)
    \/ \E price \in Prices : catalog_set_price(1, price)
    \/ start_checkout(1)
    \/ process_contact(1, 1, ContactPhone)
    \/ /\ orders = <<>>
       /\ confirm_and_create_order(1, TRUE, TRUE)
    \/ check_payment(1, 1, FALSE, TRUE, TRUE, "order_id", TRUE)
    \/ admin_cancel_order(1, TRUE)
    \/ payment_arrives(payment_label(1))

SpecSnapshot == Init /\ [][NextSnapshot]_vars

----------------------------------------------------------------------------
(* Two quantity-increasing operations on one cart line, handled in two tasks *)

NextConcurrent ==
    \/ /\ \A t \in Tasks : inflight.task[t].pc = "idle"
       /\ \E p \in Products : add_to_cart(1, p)
    \/ \E t \in Tasks, quantity \in Quantities : add_item_hget(t, 1, 1, quantity)
    \/ \E t \in Tasks : add_item_hset(t)
    \/ \E t \in Tasks : cart_increase_quantity_get_cart(t, 1, 1)
    \/ \E t \in Tasks : cart_increase_quantity_update(t)

SpecConcurrent == Init /\ [][NextConcurrent]_vars

----------------------------------------------------------------------------
(* Checkout handlers step by step: a task gives way at every await on the
   cart store, the database or Telegram, and another update of the same user
   may be handled meanwhile *)

NoTaskRunning == \A t \in Tasks : inflight.task[t].pc \in {"idle", "done"}

\* start_checkout up to and including "user = await user_service.get_user":
\* the task holds the phone it found in the profile.
start_checkout_get_user(t, u) ==
    LET view == get_cart(cart, catalog, u)
        phone == IF profile[u].phone # <<>> THEN profile[u].phone ELSE NoPhone
    IN
    /\ inflight.task[t].pc = "idle"
    /\ IF view.items = <<>>
       THEN /\ reply' = Reply("start_checkout", u, 0, "cart_empty")
            /\ inflight' = [inflight EXCEPT !.task[t].pc = "done"]
       ELSE /\ reply' = Reply("start_checkout_get_user", u, 0, "")
            /\ inflight' = [inflight EXCEPT !.task[t] =
                              [pc |-> "start_checkout_update_data", user |-> u,
                               product |-> 0, quantity |-> 0,
                               current_data |-> phone, current_qty |-> 0]]
    /\ UNCHANGED <<catalog, cart, profile, fsm, data, orders, gateway,
                   storefront, fx, throttle>>

\* start_checkout from "await state.update_data(...)" to the next await on
\* the network: without a phone ask_for_phone sets the state at once, with a
\* phone show_order_confirmation first reads the cart.
start_checkout_update_data(t) ==
    LET task == inflight.task[t]
        u == task.user
        phone == task.current_data
    IN
    /\ task.pc = "start_checkout_update_data"
    /\ data' = [data EXCEPT ![u] =
                  update_data(@, [name |-> full_name(u),
                                  phone |-> phone,
                                  email |-> checkout_email(profile, u),
                                  address |-> Pickup,
                                  needs_phone |-> (phone = NoPhone)])]
    /\ IF phone = NoPhone
       THEN /\ fsm' = ask_for_phone(fsm, u)
            /\ inflight' = [inflight EXCEPT !.task[t].pc = "done"]
            /\ reply' = Reply("start_checkout", u, 0, "ask_phone")
       ELSE /\ inflight' = [inflight EXCEPT
                              !.task[t].pc = "start_checkout_confirmation"]
            /\ reply' = Reply("start_checkout_update_data", u, 0, "")
            /\ UNCHANGED fsm
    /\ UNCHANGED <<catalog, cart, profile, orders, gateway, storefront, fx, throttle>>

\* show_order_confirmation of start_checkout from its set_state on.
start_checkout_confirmation(t) ==
    LET task == inflight.task[t] IN
    /\ task.pc = "start_checkout_confirmation"
    /\ fsm' = show_order_confirmation(fsm, task.user)
    /\ inflight' = [inflight EXCEPT !.task[t].pc = "done"]
    /\ reply' = Reply("start_checkout", task.user, 0, "confirmation")
    /\ UNCHANGED <<catalog, cart, profile, data, orders, gateway, storefront, fx, throttle>>

\* process_contact up to the await inside user_service.update_phone: the
\* phone is in the draft, the profile is not written yet.
process_contact_update_data(t, u, contact_user_id, phone_number) ==
    LET phone == IF startswith(phone_number, "+") THEN phone_number
                 ELSE <<"+">> \o phone_number
    IN
    /\ inflight.task[t].pc = "idle"
    /\ StateFilter("waiting_phone", u)
    /\ IF contact_user_id # u
       THEN /\ reply' = Reply("process_contact", u, 0, "not_own_contact")
            /\ inflight' = [inflight EXCEPT !.task[t].pc = "done"]
            /\ UNCHANGED data
       ELSE /\ data' = [data EXCEPT ![u] =
                          update_data(@, [phone |-> phone,
                                          needs_phone |-> FALSE])]
            /\ inflight' = [inflight EXCEPT !.task[t] =
                              [pc |-> "process_contact_update_phone",
                               user |-> u, product |-> 0, quantity |-> 0,
                               current_data |-> phone, current_qty |-> 0]]
            /\ reply' = Reply("process_contact_update_data", u, 0, "")
    /\ UNCHANGED <<catalog, cart, profile, fsm, orders, gateway, storefront, fx, throttle>>

\* user_service.update_phone commits, or fails, rolls back and returns False
\* to a caller that does not look; then "await message.answer(...)".
process_contact_update_phone(t, db_ok) ==
    LET task == inflight.task[t] IN
    /\ task.pc = "process_contact_update_phone"
    /\ profile' = IF db_ok THEN update_phone(profile, task.user, task.current_data)
                  ELSE profile
    /\ inflight' = [inflight EXCEPT !.task[t].pc = "process_contact_confirmation"]
    /\ reply' = Reply("process_contact_update_phone", task.user, 0, "saved")
    /\ UNCHANGED <<catalog, cart, fsm, data, orders, gateway, storefront, fx, throttle>>

\* show_order_confirmation of process_contact from its set_state on.
process_contact_confirmation(t) ==
    LET task == inflight.task[t] IN
    /\ task.pc = "process_contact_confirmation"
    /\ fsm' = show_order_confirmation(fsm, task.user)
    /\ inflight' = [inflight EXCEPT !.task[t].pc = "done"]
    /\ reply' = Reply("process_contact", task.user, 0, "confirmation")
    /\ UNCHANGED <<catalog, cart, profile, data, orders, gateway, storefront, fx, throttle>>

\* One customer whose contact message and checkout callbacks may overlap.
NextOverlap ==
    \/ add_to_cart(1, 1)
    \/ clear_cart_handler(1)
    \/ NoTaskRunning /\ start_checkout(1)
    \/ \E t \in Tasks : start_checkout_get_user(t, 1)
    \/ \E t \in Tasks : start_checkout_update_data(t)
    \/ \E t \in Tasks : start_checkout_confirmation(t)
    \/ \E t \in Tasks, contact_user_id \in Users :
          process_contact_update_data(t, 1, contact_user_id, ContactPhone)
    \/ \E t \in Tasks, db_ok \in BOOLEAN : process_contact_update_phone(t, db_ok)
    \/ \E t \in Tasks : process_contact_confirmation(t)
    \/ edit_phone(1)
    \/ /\ orders = <<>>
       /\ confirm_and_create_order(1, TRUE, TRUE)

SpecOverlap == Init /\ [][NextOverlap]_vars

----------------------------------------------------------------------------
(* One order and the cart it was made from: lines are added before and after
   the order is created, the payment is checked with and without success *)

NextCartFlow ==
    \/ \E p \in Products : add_to_cart(1, p)
    \/ start_checkout(1)
    \/ process_contact(1, 1, ContactPhone)
    \/ /\ orders = <<>>
       /\ \E pay_ok \in BOOLEAN, label_ok \in BOOLEAN :
             confirm_and_create_order(1, pay_ok, label_ok)
    \/ payment_arrives(payment_label(1))
    \/ \E gw_fails \in BOOLEAN, db_ok \in BOOLEAN :
          check_payment(1, 1, gw_fails, db_ok, TRUE, "order_id", TRUE)
    \/ \E db_ok \in BOOLEAN : cancel_payment(1, 1, db_ok)

SpecCartFlow == Init /\ [][NextCartFlow]_vars

----------------------------------------------------------------------------
(* Two customers and one order: the order is user 1's, and either user may
   send a check or cancel callback that carries its id *)

NextForeign ==
    \/ \E u \in Users : add_to_cart(u, 1)
    \/ start_checkout(1)
    \/ process_contact(1, 1, ContactPhone)
    \/ /\ orders = <<>>
       /\ confirm_and_create_order(1, TRUE, TRUE)
    \/ payment_arrives(payment_label(1))
    \/ \E u \in Users, gw_fails \in BOOLEAN :
          check_payment(u, 1, gw_fails, TRUE, TRUE, "order_id", TRUE)
    \/ \E u \in Users : cancel_payment(u, 1, TRUE)

SpecForeign == Init /\ [][NextForeign]_vars

----------------------------------------------------------------------------
(* Throttling: every message and every callback query goes through its own
   ThrottlingMiddleware before a handler is called *)

\* The middleware has let an event of user u through and its handler is
\* called next.
Passed(kind, u) ==
    /\ reply.handler = "ThrottlingMiddleware"
    /\ reply.answer = "handler"
    /\ reply.user = u
    /\ reply.note = kind

Handling == reply.handler = "ThrottlingMiddleware" /\ reply.answer = "handler"

\* A middleware that marks the user again when it drops an event (not what
\* the code does).
ThrottlingMiddleware_renewing(kind, u) ==
    /\ ~Handling
    /\ throttle' = [throttle EXCEPT ![kind][u] = THROTTLE_TIME]
    /\ reply' = ReplyNote("ThrottlingMiddleware", u, 0,
                          IF throttle[kind][u] > 0 THEN "throttled" ELSE "handler",
                          kind)
    /\ UNCHANGED <<catalog, cart, profile, fsm, data, orders, gateway,
                   storefront, fx, inflight>>

\* ThrottlingMiddleware.__call__: an event of a user who is in the cache is
\* answered (callbacks only) and returned from; otherwise the user is put in
\* the cache and the handler is called.
ThrottlingMiddleware(kind, u) ==
    /\ ~Handling
    /\ IF throttle[kind][u] > 0
       THEN /\ reply' = ReplyNote("ThrottlingMiddleware", u, 0, "throttled", kind)
            /\ UNCHANGED throttle
       ELSE /\ throttle' = [throttle EXCEPT ![kind][u] = THROTTLE_TIME]
            /\ reply' = ReplyNote("ThrottlingMiddleware", u, 0, "handler", kind)
    /\ UNCHANGED <<catalog, cart, profile, fsm, data, orders, gateway,
                   storefront, fx, inflight>>

\* An event that went through and that no handler's filters accept.
unhandled(kind, u) ==
    /\ Passed(kind, u)
    /\ reply' = Reply("unhandled", u, 0, kind)
    /\ UNCHANGED <<catalog, cart, profile, fsm, data, orders, gateway,
                   storefront, fx, inflight, throttle>>

\* TTLCache: one tick of the clock; an entry is gone when its time is up.
time_passes ==
    /\ ~Handling
    /\ throttle' = [kind \in EventTypes |->
                      [u \in Users |-> IF throttle[kind][u] > 0
                                       THEN throttle[kind][u] - 1 ELSE 0]]
    /\ reply' = EnvStep
    /\ UNCHANGED <<catalog, cart, profile, fsm, data, orders, gateway,
                   storefront, fx, inflight>>

NextThrottle ==
    \/ \E kind \in EventTypes, u \in Users : ThrottlingMiddleware(kind, u)
    \/ \E kind \in EventTypes, u \in Users : unhandled(kind, u)
    \/ time_passes
    \/ \E u \in Users : Passed("callback_query", u) /\ add_to_cart(u, 1)
    \/ Passed("callback_query", 1) /\ start_checkout(1)
    \/ Passed("message", 1) /\ process_contact(1, 1, ContactPhone)
    \/ Passed("callback_query", 1) /\ edit_phone(1)
    \/ /\ Passed("callback_query", 1)
       /\ orders = <<>>
       /\ confirm_and_create_order(1, TRUE, TRUE)

SpecThrottle == Init /\ [][NextThrottle]_vars

----------------------------------------------------------------------------
(* A returning customer: several orders of one user, each paid and mirrored
   with every write and every storefront call going through *)

OrderIds == 1..MaxOrders

NextReturning ==
    \/ add_to_cart(1, 1)
    \/ start_checkout(1)
    \/ process_contact(1, 1, ContactPhone)
    \/ /\ Len(orders) < MaxOrders
       /\ confirm_and_create_order(1, TRUE, TRUE)
    \/ \E o \in OrderIds : payment_arrives(payment_label(o))
    \/ \E o \in OrderIds :
          check_payment(1, o, FALSE, TRUE, TRUE, "order_id", TRUE)

SpecReturning == Init /\ [][NextReturning]_vars

----------------------------------------------------------------------------
(* One order and the wallet: payments through the payment page and transfers
   that carry no label *)

NextWallet ==
    \/ add_to_cart(1, 1)
    \/ start_checkout(1)
    \/ process_contact(1, 1, ContactPhone)
    \/ /\ orders = <<>>
       /\ \E pay_ok \in BOOLEAN, label_ok \in BOOLEAN :
             confirm_and_create_order(1, pay_ok, label_ok)
    \/ payment_arrives(payment_label(1))
    \/ transfer_arrives
    \/ \E gw_fails \in BOOLEAN :
          check_payment(1, 1, gw_fails, TRUE, TRUE, "order_id", TRUE)

SpecWallet == Init /\ [][NextWallet]_vars

----------------------------------------------------------------------------
(* The cart alone: every cart handler of every user, against a changing catalog *)

NextCart ==
    \/ \E u \in Users, p \in Products : add_to_cart(u, p)
    \/ \E u \in Users : show_cart(u)
    \/ \E u \in Users, p \in Products : cart_increase_quantity(u, p)
    \/ \E u \in Users, p \in Products : cart_decrease_quantity(u, p)
    \/ \E u \in Users, p \in Products : cart_remove_item(u, p)
    \/ \E u \in Users : clear_cart_handler(u)
    \/ \E u \in Users : cart_expire(u)
    \/ \E p \in Products, price \in Prices : catalog_set_price(p, price)
    \/ \E p \in Products, q \in Stock : catalog_set_stock(p, q)
    \/ \E p \in Products : catalog_unlist(p)
    \/ \E p \in Products, price \in Prices, q \in Stock : catalog_list(p, price, q)

SpecCart == Init /\ [][NextCart]_vars

----------------------------------------------------------------------------
(* Properties of the cart *)

CartLinesPositive ==
    \A u \in Users : \A i \in DOMAIN cart[u] : cart[u][i].quantity >= 1

DecreaseToZeroDeletes ==
    \A u \in Users, p \in Products :
        (/\ reply'.handler = "cart_dec" /\ reply'.user = u /\ reply'.arg = p
         /\ reply'.answer # "not_in_cart"
         /\ StoredQty(cart, u, p) - 1 <= 0)
        => hget(cart', u, p) = <<>>

ResolvableLines(u) ==
    {i \in DOMAIN cart[u] : cart[u][i].product_id \in DOMAIN catalog}

ExpectedTotal(u) ==
    SumOver(ResolvableLines(u),
            [i \in ResolvableLines(u) |->
                cart[u][i].quantity * catalog[cart[u][i].product_id].price])

TotalIsSumOverResolvable ==
    \A u \in Users :
        LET view == get_cart(cart, catalog, u) IN
        /\ view.total = ExpectedTotal(u)
        /\ Len(view.items) = Cardinality(ResolvableLines(u))
        /\ {view.items[i].product_id : i \in DOMAIN view.items}
             = {cart[u][i].product_id : i \in ResolvableLines(u)}
        /\ \A i \in DOMAIN cart[u] :
              DOMAIN cart[u][i] = {"product_id", "quantity", "options"}

PriceChangeChangesTotal ==
    \A p \in Products :
        (/\ p \in DOMAIN catalog /\ p \in DOMAIN catalog'
         /\ catalog'[p].price # catalog[p].price)
        => \A u \in Users :
              get_cart(cart', catalog', u).total
                = get_cart(cart, catalog, u).total
                  + StoredQty(cart, u, p) * (catalog'[p].price - catalog[p].price)

\* C5: the total get_cart returns is the sum of quantity x current catalog
\* price over exactly the stored lines whose product the catalog resolves;
\* the cart stores no price, so a price change changes the total.
C5_TotalFromCurrentPrices ==
    [](TotalIsSumOverResolvable) /\ [][PriceChangeChangesTotal]_vars

\* C5 witness: a cart of two lines of which one resolves, at the changed price.
C5_Witness ==
    \E u \in Users :
        /\ Len(cart[u]) = 2
        /\ Cardinality(ResolvableLines(u)) = 1
        /\ \E i \in ResolvableLines(u) :
              /\ catalog[cart[u][i].product_id].price = 6
              /\ get_cart(cart, catalog, u).total = 6 * cart[u][i].quantity

----------------------------------------------------------------------------
(* Properties of orders and payments *)

AllowedTransitions ==
    {<<"pending", "paid">>, <<"pending", "cancelled">>,
     <<"paid", "completed">>, <<"paid", "refunded">>}

StatusStepAllowed ==
    \A o \in DOMAIN orders :
        orders'[o].status # orders[o].status
        => <<orders[o].status, orders'[o].status>> \in AllowedTransitions

\* C1: an order's status changes only along pending->paid, pending->cancelled,
\* paid->completed and paid->refunded, whatever the user and the admin do.
C1_StatusTransitions == [][StatusStepAllowed]_vars

CheckedOrder(o) == reply'.handler = "check_payment" /\ reply'.arg = o

AtMostOneMirror == \A o \in DOMAIN orders : MirrorCount(o) <= 1

CheckOfSettledOrderIsNoOp ==
    \A o \in DOMAIN orders :
        orders[o].paid_at /\ CheckedOrder(o)
        => UNCHANGED <<orders, cart, storefront, profile>>

\* C2: once the payment of an order was recorded, checking that order again
\* changes nothing (no second paid write, no second clearing of the cart, no
\* second storefront order), and no order is ever mirrored more than once.
C2_CheckPaymentIdempotent ==
    [](AtMostOneMirror) /\ [][CheckOfSettledOrderIsNoOp]_vars

CancelledOrder(o) ==
    reply'.handler \in {"cancel_payment", "admin_cancel"} /\ reply'.arg = o

CancelOnlyWhilePending ==
    \A o \in DOMAIN orders :
        CancelledOrder(o)
        => IF orders[o].status = "pending"
           THEN orders'[o].status \in {"pending", "cancelled"}
           ELSE /\ orders'[o].status = orders[o].status
                /\ reply'.answer \notin {"cancelled", "completed"}

NeverPendingAgain ==
    \A o \in DOMAIN orders :
        orders[o].status # "pending" => orders'[o].status # "pending"

\* C3: a cancel request by the user or the admin changes the status only of a
\* pending order (to cancelled); on any other order it is rejected and the
\* status stays; a left pending status never comes back.
C3_CancelOnlyPending ==
    [][CancelOnlyWhilePending]_vars /\ [][NeverPendingAgain]_vars

OrderSnapshotKept ==
    \A o \in DOMAIN orders :
        /\ o \in DOMAIN orders'
        /\ orders'[o].amount = orders[o].amount
        /\ orders'[o].items = orders[o].items

\* C6: the amount and the item snapshot of an order that exists never change,
\* whatever step follows (price change, cart change, payment check, status
\* change).
C6_OrderSnapshotImmutable == [][OrderSnapshotKept]_vars

\* C6 witness: a paid order whose snapshot price is no longer the catalog's.
C6_Witness ==
    \E o \in DOMAIN orders :
        /\ orders[o].status = "paid"
        /\ orders[o].opencart_order_id # 0
        /\ orders[o].items[1].price # catalog[orders[o].items[1].product_id].price
        /\ orders[o].amount = orders[o].items[1].price * orders[o].items[1].quantity

\* The runs in which the gateway answers and a mirroring step fails.
MirrorFailingRuns ==
    {run \in CheckRuns :
        ~run[1] /\ (~run[3] \/ run[4] # "order_id" \/ ~run[5])}

MirrorFailureKeepsPaid ==
    reply'.handler = "check_payment"
    => LET u == reply'.user
           o == reply'.arg
       IN (/\ o \in DOMAIN orders
           /\ orders[o].status # "paid"
           /\ yoomoney_check_payment(gateway, orders[o].yoomoney_label, FALSE)
                = "success")
          => \A run \in MirrorFailingRuns :
                check_payment(u, o, run[1], run[2], run[3], run[4], run[5])
                => /\ orders'[o].status =
                        check_payment_paid(orders, orders[o], run[2])[o].status
                   /\ run[2] => orders'[o].status = "paid"
                   /\ reply'.answer = "payment_success"

----------------------------------------------------------------------------
(* Properties of the checkout dialogue *)

\* The order is left by a failed payment creation: pending, no label, and no
\* payment with its label exists at the gateway.
PaymentCreationFailed(o) ==
    /\ orders[o].status = "pending"
    /\ orders[o].yoomoney_label = NoLabel
    /\ payment_label(o) \notin gateway.created

SameConfirmedCart(o) ==
    LET view == get_cart(cart, catalog, orders[o].user_id)
    IN orders[o].items = [i \in DOMAIN view.items |-> OrderItem(view.items[i])]

FailedCreationLeavesPending ==
    reply'.handler = "confirm_order" /\ reply'.answer = "error"
    => /\ Len(orders') = Len(orders) + 1
       /\ orders'[reply'.arg].status = "pending"
       /\ orders'[reply'.arg].yoomoney_label = NoLabel

RetryAttachesToSameOrder ==
    \A o \in DOMAIN orders :
        (/\ PaymentCreationFailed(o)
         /\ SameConfirmedCart(o)
         /\ reply'.handler = "confirm_order"
         /\ reply'.user = orders[o].user_id
         /\ reply'.answer = "order_created")
        => /\ Len(orders') = Len(orders)
           /\ orders'[o].yoomoney_label # NoLabel

\* C7: a failed payment creation leaves the new order pending without a
\* payment label; when the user then confirms the same cart again and the
\* payment is created, no second order appears and the label is stored on the
\* order of the failed attempt.
C7_RetryReusesOrder ==
    [][FailedCreationLeavesPending]_vars /\ [][RetryAttachesToSameOrder]_vars

EmptyCheckoutRejected ==
    \A u \in Users :
        start_checkout(u) /\ ResolvableLines(u) = {}
        => /\ UNCHANGED <<fsm, data, orders>>
           /\ reply'.answer = "cart_empty"

\* C9: a checkout started while no stored cart line resolves in the catalog is
\* answered "cart empty" and changes neither the dialogue state (an idle
\* dialogue stays idle) nor the draft nor the orders.
C9_EmptyCheckoutRejected == [][EmptyCheckoutRejected]_vars

\* C9 witness: an idle user with a stored but unresolvable line was rejected.
C9_Witness ==
    /\ reply.handler = "start_checkout"
    /\ reply.answer = "cart_empty"
    /\ cart[1] # <<>>
    /\ ResolvableLines(1) = {}
    /\ fsm[1] = "none"
    /\ data[1] = NoData
    /\ orders = <<>>

\* The user has just pressed the button for manual phone entry.
ManualEntryAsked(u) == reply.handler = "ask_manual_phone" /\ reply.user = u

ShortManualPhoneRejected ==
    \A u \in Users, text \in PhoneTexts :
        (/\ ManualEntryAsked(u)
         /\ Len(phone_digits(text)) < MinPhoneDigits
         /\ message_text(u, text))
        => UNCHANGED <<fsm, data, profile>>

ValidManualPhoneAdvances ==
    \A u \in Users :
        ManualEntryAsked(u) /\ message_text(u, PhonePlus7)
        => /\ fsm'[u] = "confirm"
           /\ data'[u].phone = PhonePlus7

\* C10: after the user chose manual entry in the phone step, a text with
\* fewer than 10 digits changes neither state, draft nor profile, and the text
\* "+79161234567" is stored in the draft and moves the dialogue to confirm.
C10_ManualPhone ==
    [][ShortManualPhoneRejected]_vars /\ [][ValidManualPhoneAdvances]_vars

----------------------------------------------------------------------------
(* The dialogue's cancel, restart and expiry *)

\* A cancel event of user u: the "cancel_order" callback, whether or not a
\* handler takes it, or the /start command.
CancelEvent(u) ==
    \/ cancel_order(u)
    \/ cancel_order_unhandled(u)
    \/ cmd_start(u)

\* C11: from every dialogue state other than Idle a cancel event ends the
\* dialogue, discards the whole draft and leaves the user's cart as it was.
C11_CancelFromEveryState ==
    [][\A u \in Users :
          (fsm[u] # "none" /\ CancelEvent(u))
             => /\ fsm'[u] = "none"
                /\ data'[u] = NoData
                /\ cart' = cart]_vars

DialogueStates == {"none"} \cup CheckoutStates

\* The draft a checkout start from Idle writes for user u.
FreshDraft(u) ==
    [name |-> full_name(u),
     phone |-> profile[u].phone,
     email |-> checkout_email(profile, u),
     address |-> Pickup,
     needs_phone |-> (profile[u].phone = NoPhone)]

\* Where the dialogue is entered: the phone step, or the confirmation when a
\* phone is on file.
EntryState(u) == IF profile[u].phone = NoPhone THEN "waiting_phone" ELSE "confirm"

RestartedFrom(u) ==
    IF reply.handler = "start_checkout" /\ reply.user = u /\ reply.note # <<>>
    THEN reply.note[1] ELSE "none"

SecondStartRestarts ==
    \A u \in Users :
       (/\ fsm[u] # "none"
        /\ get_cart(cart, catalog, u).items # <<>>
        /\ start_checkout(u))
          => /\ fsm'[u] = EntryState(u)
             /\ data'[u] = FreshDraft(u)

OneSessionPerUser == fsm \in [Users -> DialogueStates]

UserEvent(u) ==
    \/ \E p \in Products : add_to_cart(u, p)
    \/ clear_cart_handler(u)
    \/ start_checkout(u)
    \/ \E c \in Users : process_contact(u, c, ContactPhone)
    \/ \E text \in TextsIn(fsm[u]) : message_text(u, text)
    \/ edit_phone(u)
    \/ edit_name(u)
    \/ edit_address(u)
    \/ skip_address(u)
    \/ cancel_order(u)
    \/ cancel_order_unhandled(u)
    \/ cmd_start(u)
    \/ callback_start(u)
    \/ \E pay_ok \in BOOLEAN, label_ok \in BOOLEAN :
          confirm_and_create_order(u, pay_ok, label_ok)

\* C13: a dialogue whose user sends no more events eventually expires: from
\* some time on the session is Idle and the draft is released.
C13_SessionExpires ==
    <>[][~UserEvent(1)]_vars => <>[](fsm[1] = "none" /\ data[1] = NoData)

----------------------------------------------------------------------------
(* The cart service's calls *)

OtherLines(store, u, p) == SelectSeq(store[u], LAMBDA l : l.product_id # p)

AddItemEffect ==
    \A u \in Users, p \in Products, quantity \in Quantities,
       options \in OptionDicts :
       (/\ reply'.handler = "add_item"
        /\ CartService_add_item(u, p, quantity, options))
          => LET old == hget(cart, u, p)
                 new == hget(cart', u, p)
             IN /\ Len(new) = 1
                /\ IF old # <<>>
                   THEN /\ new[1].quantity = old[1].quantity + quantity
                        /\ new[1].options = old[1].options
                   ELSE new[1].quantity = quantity
                /\ OtherLines(cart', u, p) = OtherLines(cart, u, p)
                /\ \A v \in Users \ {u} : cart'[v] = cart[v]

\* C14: add_item on a product already in the cart adds the quantity to the
\* stored one and keeps the line's options; on a product not in the cart it
\* creates a line with that quantity; no other line and no other user's cart
\* changes.
C14_AddItem == [][AddItemEffect]_vars

\* C14 witness: add_item has raised an existing line with options from 1 to
\* 2, beside another line of the same cart and a line of the other user.
C14_Witness ==
    /\ reply.handler = "add_item"
    /\ reply.user = 1
    /\ reply.arg = 1
    /\ reply.note = <<1>>
    /\ hget(cart, 1, 1) # <<>>
    /\ hget(cart, 1, 1)[1].quantity = 2
    /\ hget(cart, 1, 1)[1].options = SomeOptions
    /\ hget(cart, 1, 2) # <<>>
    /\ cart[2] # <<>>

\* What removing the line of product p leaves of user u's cart.
LineRemoved(before, after, u, p) ==
    /\ hget(after, u, p) = <<>>
    /\ OtherLines(after, u, p) = OtherLines(before, u, p)
    /\ \A v \in Users \ {u} : after[v] = before[v]

UpdateQuantityEffect ==
    \A u \in Users, p \in Products, quantity \in UpdateQuantities :
       (/\ reply'.handler = "update_quantity"
        /\ CartService_update_quantity(u, p, quantity))
          => IF quantity <= 0
             THEN /\ LineRemoved(cart, cart', u, p)
                  /\ LineRemoved(cart, remove_item(cart, u, p), u, p)
                  /\ cart' = remove_item(cart, u, p)
             ELSE hget(cart, u, p) # <<>> => StoredQty(cart', u, p) = quantity

\* C15: update_quantity with a quantity of zero or less leaves the cart as
\* remove_item leaves it; with a positive quantity on an existing line it
\* makes the stored quantity exactly that quantity.
C15_UpdateQuantity == [][UpdateQuantityEffect]_vars

\* C15 witness: update_quantity has taken an existing line out of a cart
\* that keeps its other line.
C15_Witness ==
    /\ reply.handler = "update_quantity"
    /\ reply.user = 1
    /\ reply.arg = 1
    /\ reply.answer = "true"
    /\ hget(cart, 1, 1) = <<>>
    /\ hget(cart, 1, 2) # <<>>

GetCartWritesNothing ==
    (/\ reply'.handler = "get_cart"
     /\ \E u \in Users : CartService_get_cart(u))
       => cart' = cart

\* The view a get_cart call has returned shows the stored lines of the
\* products the catalog resolves, and only those.
ReturnedViewShowsResolvable ==
    reply.handler = "get_cart"
       => LET view == reply.note
              u == reply.user
              shown == {p \in Products : p \in DOMAIN catalog}
          IN /\ \A p \in Products :
                   ViewQty(view, p) = IF p \in shown THEN StoredQty(cart, u, p)
                                      ELSE 0
             /\ Len(view.items) = Cardinality({p \in shown : StoredQty(cart, u, p) > 0})
             /\ view.total = SumOver(shown, [p \in shown |->
                                               catalog[p].price
                                                  * StoredQty(cart, u, p)])

\* A product leaving the catalog takes its line out of the view and not out
\* of the store; coming back, it brings the line back into the view.
CatalogChangeKeepsStoredLine ==
    \A p \in Products, u \in Users :
       /\ catalog_unlist(p)
            => /\ cart' = cart
               /\ ViewQty(get_cart(cart', catalog', u), p) = 0
       /\ (\E price \in Prices, quantity \in Stock : catalog_list(p, price, quantity))
            => /\ cart' = cart
               /\ ViewQty(get_cart(cart', catalog', u), p) = StoredQty(cart, u, p)

\* C16: get_cart does not modify the stored cart; a stored line whose product
\* the catalog no longer resolves is left out of the returned items and total
\* but stays stored, and is in the view again once the product resolves again.
C16_GetCartReadOnly ==
    /\ [][GetCartWritesNothing /\ CatalogChangeKeepsStoredLine]_vars
    /\ []ReturnedViewShowsResolvable

\* C16 witness: get_cart has returned a view of one line for a cart that
\* stores two, the other line's product being out of the catalog.
C16_Witness ==
    /\ reply.handler = "get_cart"
    /\ reply.user = 1
    /\ 1 \notin DOMAIN catalog
    /\ StoredQty(cart, 1, 1) > 0
    /\ StoredQty(cart, 1, 2) > 0
    /\ Len(reply.note.items) = 1
    /\ reply.note.total = catalog[2].price * StoredQty(cart, 1, 2)

----------------------------------------------------------------------------
(* Orders and payment *)

SnapshotSum(order) ==
    SumSeq([k \in DOMAIN order.items |->
              order.items[k].price * order.items[k].quantity])

CheckSucceeds ==
    /\ reply'.handler = "check_payment"
    /\ \/ reply'.answer = "payment_success"
       \/ \E u \in Users : cart[u] # <<>> /\ cart'[u] = <<>>

BothDone == \A t \in Tasks : inflight.task[t].pc = "done"

\* C20: when two quantity-increasing operations on one cart line are handled
\* concurrently, no increment is lost: once both are done the stored quantity
\* is the initial quantity plus both increments.
C20_NoLostIncrement ==
    BothDone
       => StoredQty(cart, 1, 1)
            = inflight.initial + inflight.task[1].quantity
                               + inflight.task[2].quantity

----------------------------------------------------------------------------
(* Editing the draft *)

\* Draft d2 is draft d1 but for the fields in keys.
SameBut(d1, d2, keys) ==
    /\ DOMAIN d2 = DOMAIN d1
    /\ \A k \in DOMAIN d1 \ keys : d2[k] = d1[k]

\* The step a handler of user u took, by the answer it gave.
Answered(handler, u, answer) ==
    /\ reply'.handler = handler
    /\ reply'.user = u
    /\ reply'.answer = answer

EditOpensCollectingState ==
    \A u \in Users :
       /\ (fsm[u] = "confirm" /\ edit_name(u))
            => fsm'[u] = "waiting_name" /\ data' = data
       /\ (fsm[u] = "confirm" /\ edit_phone(u))
            => fsm'[u] = "waiting_phone" /\ data' = data
       /\ (fsm[u] = "confirm" /\ edit_address(u))
            => fsm'[u] = "waiting_address" /\ data' = data

EditStoresOneField ==
    \A u \in Users :
       /\ (fsm[u] = "waiting_name" /\ Answered("process_name_edit", u, "confirmation"))
            => /\ fsm'[u] = "confirm"
               /\ SameBut(data[u], data'[u], {"name"})
               /\ Len(data'[u].name) >= MinNameLength
       /\ (fsm[u] = "waiting_address"
              /\ Answered("process_address_edit", u, "confirmation"))
            => /\ fsm'[u] = "confirm"
               /\ SameBut(data[u], data'[u], {"address"})
               /\ Len(data'[u].address) >= MinAddressLength
       /\ (fsm[u] = "waiting_address" /\ Answered("skip_address", u, "confirmation"))
            => /\ fsm'[u] = "confirm"
               /\ SameBut(data[u], data'[u], {"address"})
               /\ data'[u].address = Pickup
       /\ (fsm[u] = "waiting_phone" /\ Answered("process_contact", u, "confirmation"))
            => /\ fsm'[u] = "confirm"
               /\ SameBut(data[u], data'[u], {"phone", "needs_phone"})
               /\ data'[u].phone # NoPhone

InvalidEntryKeepsDraft ==
    \A u \in Users :
       /\ (fsm[u] = "waiting_name" /\ message_text(u, ShortName))
            => fsm'[u] = "waiting_name" /\ data' = data
       /\ (fsm[u] = "waiting_address" /\ message_text(u, ShortAddress))
            => fsm'[u] = "waiting_address" /\ data' = data

\* C21: editing one field from the confirmation moves the dialogue to the
\* matching collecting state and back while every other draft field keeps
\* its value; a name under 2 characters or an address under 5 keeps the
\* dialogue in the collecting state and the whole draft unchanged.
C21_EditKeepsOtherFields ==
    [][EditOpensCollectingState /\ EditStoresOneField
          /\ InvalidEntryKeepsDraft]_vars

\* C21 witness: an address edit has come back to the confirmation with the
\* new address, beside a name edited before it and the phone as supplied.
C21_Witness ==
    /\ reply.handler = "process_address_edit"
    /\ reply.answer = "confirmation"
    /\ fsm[1] = "confirm"
    /\ data[1].address = AnyAddress
    /\ data[1].name = AnyName
    /\ data[1].phone = <<"+">> \o ContactPhone

----------------------------------------------------------------------------
(* Mirroring, creation and payment of orders *)

\* C22: the storefront customer of a user is created at most once; a later
\* paid order of the same user reuses the stored customer mapping and does
\* not call createCustomer again.
C22_CustomerCreatedOnce ==
    \A u \in Users : storefront.customer_calls[u] <= 1

ConfirmStep(u) ==
    /\ reply'.handler = "confirm_order"
    /\ \E pay_ok \in BOOLEAN, label_ok \in BOOLEAN :
          confirm_and_create_order(u, pay_ok, label_ok)

NoOrderFromEmptyCart ==
    \A u \in Users :
       (ConfirmStep(u) /\ get_cart(cart, catalog, u).items = <<>>)
          => orders' = orders /\ gateway' = gateway

OrdersStartPending ==
    \A o \in DOMAIN orders' \ DOMAIN orders :
        /\ orders'[o].status = "pending"
        /\ orders'[o].items # <<>>

OrdersHaveItems == \A o \in DOMAIN orders : orders[o].items # <<>>

\* C23: every order that exists was created pending with a non-empty item
\* snapshot; a confirm on a cart with no resolvable line creates no order
\* and makes no call to the payment gateway.
C23_OrdersCreatedPendingNonEmpty ==
    [][NoOrderFromEmptyCart /\ OrdersStartPending]_vars /\ []OrdersHaveItems

\* C23 witness: a confirm has been turned down for a cart whose only line is
\* of a product the catalog has lost; no order and no payment exist.
C23_Witness ==
    /\ reply.handler = "confirm_order"
    /\ reply.answer = "cart_empty"
    /\ cart[1] # <<>>
    /\ orders = <<>>
    /\ gateway.created = {}

\* C24: every state a checkout handler filters on or moves to is declared in
\* CheckoutStates, so the manual phone entry asked for at the phone prompt
\* puts the dialogue in a declared state with a handler for its input.
C24_UsedStatesDeclared ==
    /\ reply.handler = "ask_manual_phone"
         => /\ fsm[reply.user] = "waiting_phone_manual"
            /\ fsm[reply.user] \in FilterStates
    /\ FilterStates \cup TransitionStates \subseteq CheckoutStates

\* C25: an order is set to paid only if it carries a payment reference: in
\* every reachable state a paid order has its payment label, also when
\* storing the label failed or the payment could not be created.
C25_PaidHasLabel ==
    \A o \in DOMAIN orders :
        orders[o].status = "paid" => orders[o].yoomoney_label # NoLabel

\* C26: an order has a paid_at timestamp if and only if it has passed through
\* status paid: an order in status paid, completed or refunded has paid_at
\* set, and a pending order has none.
C26_PaidAtIffPaid ==
    \A o \in DOMAIN orders :
        /\ orders[o].status \in {"paid", "completed", "refunded"}
              => orders[o].paid_at
        /\ orders[o].status = "pending" => ~orders[o].paid_at

HasPhone(d) == "phone" \in DOMAIN d /\ d["phone"] # NoPhone

ConfirmingHasPhone == \A u \in Users : fsm[u] = "confirm" => HasPhone(data[u])

OrdersHavePhone ==
    \A o \in DOMAIN orders : orders[o].customer_phone # NoPhone

\* C27: whenever the dialogue is in Confirming the draft holds a non-empty
\* phone, so every order created by confirm has a non-empty customer phone,
\* also when a second checkout start of the same user overlaps other handlers.
C27_ConfirmingHasPhone == ConfirmingHasPhone /\ OrdersHavePhone

OrderFlowStep ==
    reply'.handler \in {"confirm_order", "check_payment", "cancel_payment"}

ConfirmKeepsCart == reply'.handler = "confirm_order" => cart' = cart

CartEmptiedOnlyByPaidCheck ==
    (OrderFlowStep /\ cart' # cart)
       => /\ reply'.handler = "check_payment"
          /\ reply'.answer = "payment_success"
          /\ reply'.arg \in DOMAIN orders
          /\ orders[reply'.arg].yoomoney_label \in gateway.paid

ClearRemovesEveryLine ==
    (reply'.handler = "check_payment" /\ reply'.answer = "payment_success")
       => cart'[orders[reply'.arg].user_id] = <<>>

\* C28: confirming an order leaves the cart unchanged; the order flow empties
\* the cart only in a payment check that the gateway answers with success,
\* and that clear removes every line present at that moment, including lines
\* added after the order was created.
C28_CartClearedOnlyByPaidCheck ==
    [][ConfirmKeepsCart /\ CartEmptiedOnlyByPaidCheck
          /\ ClearRemovesEveryLine]_vars

\* C28 witness: a successful check has deleted two cart lines for an order
\* that was created from one.
C28_Witness ==
    /\ reply.handler = "check_payment"
    /\ reply.answer = "payment_success"
    /\ Len(orders[reply.arg].items) = 1
    /\ reply.note[4] = 2
    /\ cart[orders[reply.arg].user_id] = <<>>

\* C29: a check-payment or cancel callback of user U changes only orders owned
\* by U and only U's cart: an order of another user keeps its status and
\* another user's cart keeps its lines.
C29_OnlyOwnOrdersAndCart ==
    [][reply'.handler \in {"check_payment", "cancel_payment"}
          => /\ \A o \in DOMAIN orders :
                   orders[o].user_id # reply'.user
                      => orders'[o].status = orders[o].status
             /\ \A v \in Users \ {reply'.user} : cart'[v] = cart[v]]_vars

\* An event of user u has just gone into the middleware of its type.
Arrived(kind, u) ==
    /\ reply'.handler = "ThrottlingMiddleware"
    /\ reply'.user = u
    /\ reply'.note = kind

ThrottledEventDropped ==
    \A kind \in EventTypes, u \in Users :
       (throttle[kind][u] > 0 /\ Arrived(kind, u))
          => /\ reply'.answer = "throttled"
             /\ cart' = cart
             /\ fsm' = fsm
             /\ data' = data
             /\ orders' = orders
             /\ throttle' = throttle

\* C30: an event of a user who is still in the throttle cache of its event
\* type is dropped before any handler runs: cart, dialogue state, draft and
\* orders stay as they are and the throttle window is not restarted.
C30_ThrottledEventDropped == [][ThrottledEventDropped]_vars

\* C30 witness: a callback of user 1 has been dropped in the middle of a
\* checkout, one tick into the window, while messages are not throttled.
C30_Witness ==
    /\ reply.handler = "ThrottlingMiddleware"
    /\ reply.answer = "throttled"
    /\ reply.user = 1
    /\ reply.note = "callback_query"
    /\ throttle["callback_query"][1] = THROTTLE_TIME - 1
    /\ throttle["message"][1] = 0
    /\ fsm[1] = "waiting_phone"
    /\ cart[1] # <<>>

====
